---- MODULE Spec2Model ----
(***************************************************************************)
(* Model of the BKJ valuation backend (src/app.py): one /api/valuation     *)
(* request at a time.  The request is validated, the Carzone REST API is   *)
(* queried, and DoneDeal is queried as a fallback when Carzone yields no   *)
(* price.  Strings are sequences of one-character strings; a JSON value is *)
(* a record [t, v] with t in {"absent", "str", "num"}; Python's None for a *)
(* price is [some |-> FALSE].  Prices are integers (float(p) keeps the     *)
(* value of an integer).                                                   *)
(***************************************************************************)
EXTENDS Integers, Sequences, FiniteSets, TLC

VARIABLES pc, args, make, model, year, max_mileage, czResp, ddResp,
          lowest_price, carzone_url, carzone_err, dd_price, dd_err,
          result, offer, fetches

vars == <<pc, args, make, model, year, max_mileage, czResp, ddResp,
          lowest_price, carzone_url, carzone_err, dd_price, dd_err,
          result, offer, fetches>>

(* ------------------------------ bounds --------------------------------- *)
MaxCars == 2
MaxAds == 2

(* ------------------------- program constants --------------------------- *)
SanityFloor == 500
MileageAllowance == 20000
FixedMargin == 4000

(* ------------------------------ values --------------------------------- *)
NoneVal == [some |-> FALSE, v |-> 0]
Some(x) == [some |-> TRUE, v |-> x]
NoErr == "None"

Absent == [t |-> "absent", v |-> 0]
Str == [t |-> "str", v |-> 0]
Num(n) == [t |-> "num", v |-> n]

\* Python truthiness of a JSON value: None, 0 and "" are falsy.
Truthy(p) == (p.t = "str") \/ (p.t = "num" /\ p.v # 0)
\* isinstance(p, (int, float))
IsNumber(p) == p.t = "num"

(* ------------------------------ strings -------------------------------- *)
Whitespace == {" "}
Separators == {" ", "-", "_"}

Lower(c) ==
  CASE c = "X" -> "x"
    [] c = "Y" -> "y"
    [] c = "Z" -> "z"
    [] c = "V" -> "v"
    [] OTHER -> c

RECURSIVE LStrip(_)
LStrip(s) ==
  IF s = <<>> THEN s
  ELSE IF Head(s) \in Whitespace THEN LStrip(Tail(s)) ELSE s

RECURSIVE RStrip(_)
RStrip(s) ==
  IF s = <<>> THEN s
  ELSE IF s[Len(s)] \in Whitespace THEN RStrip(SubSeq(s, 1, Len(s) - 1)) ELSE s

\* str.strip()
Strip(s) == RStrip(LStrip(s))

\* str.lower()
LowerStr(s) == [i \in 1..Len(s) |-> Lower(s[i])]

RECURSIVE RemoveSeparators(_)
\* re.sub(r"[\s\-_]", "", s)
RemoveSeparators(s) ==
  IF s = <<>> THEN <<>>
  ELSE IF Head(s) \in Separators THEN RemoveSeparators(Tail(s))
       ELSE <<Head(s)>> \o RemoveSeparators(Tail(s))

\* sub in s
Contains(sub, s) ==
  \E i \in 0..Len(s) :
    /\ i + Len(sub) <= Len(s)
    /\ SubSeq(s, i + 1, i + Len(sub)) = sub

Digits == {"0", "1", "2", "3", "5"}
DigitVal(c) ==
  CASE c = "0" -> 0 [] c = "1" -> 1 [] c = "2" -> 2 [] c = "3" -> 3
    [] c = "5" -> 5 [] OTHER -> 0

\* int(s) succeeds on an optional sign followed by digits
IsIntString(s) ==
  LET body == IF s # <<>> /\ Head(s) \in {"-", "+"} THEN Tail(s) ELSE s
  IN  body # <<>> /\ \A i \in 1..Len(body) : body[i] \in Digits

RECURSIVE DigitsVal(_)
DigitsVal(s) ==
  IF s = <<>> THEN 0
  ELSE 10 * DigitsVal(SubSeq(s, 1, Len(s) - 1)) + DigitVal(s[Len(s)])

IntOf(s) ==
  IF Head(s) = "-" THEN 0 - DigitsVal(Tail(s))
  ELSE IF Head(s) = "+" THEN DigitsVal(Tail(s))
  ELSE DigitsVal(s)

RECURSIVE MinOf(_)
\* min(prices) over a non-empty list
MinOf(s) ==
  IF Len(s) = 1 THEN s[1]
  ELSE LET m == MinOf(Tail(s)) IN IF Head(s) <= m THEN Head(s) ELSE m

SeqsUpTo(S, n) == UNION {[1..k -> S] : k \in 0..n}
Range(s) == {s[i] : i \in 1..Len(s)}

(* ------------------------- Carzone REST API ---------------------------- *)
PriceKeys == <<"price", "Price", "askingPrice", "asking_price", "salePrice">>
KeySet == {PriceKeys[i] : i \in 1..Len(PriceKeys)}

\* p and isinstance(p, (int, float)) and p > 500
Usable(p) == Truthy(p) /\ IsNumber(p) /\ p.v > SanityFloor

RECURSIVE CarPriceFrom(_, _)
CarPriceFrom(car, i) ==
  IF i > Len(PriceKeys) THEN NoneVal
  ELSE IF Usable(car.f[PriceKeys[i]]) THEN Some(car.f[PriceKeys[i]].v)
       ELSE CarPriceFrom(car, i + 1)

RECURSIVE CarPriceFromLast(_, _)
CarPriceFromLast(car, i) ==
  IF i < 1 THEN NoneVal
  ELSE IF Usable(car.f[PriceKeys[i]]) THEN Some(car.f[PriceKeys[i]].v)
       ELSE CarPriceFromLast(car, i - 1)

CarPriceReversed(car) == CarPriceFromLast(car, Len(PriceKeys))

\* the inner loop over the price keys: the first usable value, then break
CarPrice(car) == CarPriceFrom(car, 1)

RECURSIVE CarzonePrices(_)
\* the list `prices` built by the loop over `cars`
CarzonePrices(cars) ==
  IF cars = <<>> THEN <<>>
  ELSE (IF CarPrice(Head(cars)).some THEN <<CarPrice(Head(cars)).v>> ELSE <<>>)
         \o CarzonePrices(Tail(cars))

\* data if it is a list, else data["cars"], data["stock"] or data["results"],
\* else []
CarsOf(data) == IF data.kind = "other" THEN <<>> ELSE data.items

CarzoneSearchUrl(mk, md, yr, mm) ==
  [site |-> "https://www.carzone.ie/search", make |-> mk, model |-> md,
   minYear |-> yr, maxYear |-> yr, maxMileage |-> mm,
   sellerType |-> "Trade", sort |-> "PriceAsc"]

\* f"Carzone returned status {resp.status_code}"
CarzoneStatusErr(code) ==
  CASE code = 403 -> "Carzone returned status 403"
    [] code = 500 -> "Carzone returned status 500"
    [] OTHER -> "Carzone returned status"

FirstOf(prices) == Head(prices)

\* min(prices)
LowestOf(prices) == MinOf(prices)

get_lowest_carzone_price(mk, md, yr, mm, resp) ==
  LET url == CarzoneSearchUrl(mk, md, yr, mm)
      cars == CarsOf(resp.data)
      prices == CarzonePrices(cars)
  IN  IF resp.raise
        THEN [price |-> NoneVal, url |-> url, err |-> "Carzone error"]
      ELSE IF resp.status # 200
        THEN [price |-> NoneVal, url |-> url,
              err |-> CarzoneStatusErr(resp.status)]
      ELSE IF ~resp.json
        THEN [price |-> NoneVal, url |-> url, err |-> "Carzone error"]
      ELSE IF \E i \in 1..Len(cars) : ~cars[i].dict
        THEN [price |-> NoneVal, url |-> url, err |-> "Carzone error"]
      ELSE IF prices = <<>>
        THEN [price |-> NoneVal, url |-> url,
              err |-> "No prices found in Carzone response"]
      ELSE [price |-> Some(LowestOf(prices)), url |-> url, err |-> NoErr]

(* ------------------------- DoneDeal fallback --------------------------- *)
\* model.replace(" ", "+")
ModelUrl(md) == [i \in 1..Len(md) |-> IF md[i] = " " THEN "+" ELSE md[i]]

DoneDealUrl(mk, md, yr) ==
  [site |-> "https://www.donedeal.ie/cars", make |-> mk, model |-> ModelUrl(md),
   year_from |-> yr, year_to |-> yr, seller_type |-> "dealer",
   sort |-> "price_asc"]

\* f"DoneDeal returned status {resp.status_code}"
DoneDealStatusErr(code) ==
  CASE code = 403 -> "DoneDeal returned status 403"
    [] code = 500 -> "DoneDeal returned status 500"
    [] OTHER -> "DoneDeal returned status"

\* re.sub(r"[\s\-_]", "", model).lower()
ModelClean(md) == LowerStr(RemoveSeparators(md))

\* first-pass price test: skipped when
\* not price or not isinstance(price, (int, float)) or price < 500
FirstPassPrice(p) == Truthy(p) /\ IsNumber(p) /\ ~(p.v < SanityFloor)

\* second-pass price test:
\* price and isinstance(price, (int, float)) and price > 500
SecondPassPrice(p) == Truthy(p) /\ IsNumber(p) /\ p.v > SanityFloor

RECURSIVE Join(_)
\* " ".join(str(v) for v in attrs)
Join(attrs) ==
  IF attrs = <<>> THEN <<>>
  ELSE IF Len(attrs) = 1 THEN Head(attrs)
  ELSE Head(attrs) \o <<" ">> \o Join(Tail(attrs))

\* ad.get("title") is truthy but not a string: .lower() raises
TitleRaises(ad) == ad.title.t = "num"

\* (title or header.displayName or " ".join(displayAttributes)).lower()
TitleOf(ad) ==
  LowerStr(IF ad.title.t = "str" /\ ad.title.s # <<>> THEN ad.title.s
           ELSE IF ad.displayName # <<>> THEN ad.displayName
           ELSE Join(ad.displayAttributes))

\* model_clean in title_clean
TitleMatches(ad, md) == Contains(ModelClean(md), RemoveSeparators(TitleOf(ad)))

RECURSIVE FirstPass(_, _)
\* first pass: prices of the ads whose title contains the model name
FirstPass(ads, md) ==
  IF ads = <<>> THEN <<>>
  ELSE (IF FirstPassPrice(Head(ads).price) /\ TitleMatches(Head(ads), md)
          THEN <<Head(ads).price.v>> ELSE <<>>)
         \o FirstPass(Tail(ads), md)

RECURSIVE SecondPass(_)
\* second pass: all valid prices
SecondPass(ads) ==
  IF ads = <<>> THEN <<>>
  ELSE (IF SecondPassPrice(Head(ads).price) THEN <<Head(ads).price.v>> ELSE <<>>)
         \o SecondPass(Tail(ads))

AlwaysRelax(prices) == TRUE

\* `if not prices:` before the second pass
NoModelMatch(prices) == prices = <<>>

\* the list `prices` after both passes
DoneDealPrices(ads, md) ==
  LET first == FirstPass(ads, md)
  IN  IF NoModelMatch(first) THEN first \o SecondPass(ads) ELSE first

get_lowest_donedeal_price(mk, md, yr, resp) ==
  LET ads == resp.ads
      prices == DoneDealPrices(ads, md)
  IN  IF resp.raise
        THEN [price |-> NoneVal, err |-> "DoneDeal error"]
      ELSE IF resp.status # 200
        THEN [price |-> NoneVal, err |-> DoneDealStatusErr(resp.status)]
      ELSE IF ~resp.nextData
        THEN [price |-> NoneVal,
              err |-> "DoneDeal: __NEXT_DATA__ not found in page"]
      ELSE IF ~resp.json
        THEN [price |-> NoneVal, err |-> "DoneDeal error"]
      ELSE IF ads = <<>>
        THEN [price |-> NoneVal, err |-> "DoneDeal: no ads in response"]
      ELSE IF \E i \in 1..Len(ads) :
                FirstPassPrice(ads[i].price) /\ TitleRaises(ads[i])
        THEN [price |-> NoneVal, err |-> "DoneDeal error"]
      ELSE IF prices = <<>>
        THEN [price |-> NoneVal, err |-> "DoneDeal: no valid prices found"]
      ELSE [price |-> Some(LowestOf(prices)), err |-> NoErr]

(* --------------------------- /api/valuation ---------------------------- *)
NoArg == [present |-> FALSE, s |-> <<>>]
Arg(s) == [present |-> TRUE, s |-> s]

\* request.args.get(name, default)
ArgGet(a, default) == IF a.present THEN a.s ELSE default

\* int(mileage), 0 on ValueError, plus the allowance
MaxMileage(ml) == (IF IsIntString(ml) THEN IntOf(ml) ELSE 0) + MileageAllowance

\* not make or not model or not year
MissingParams(mk, md, yr) == mk = <<>> \/ md = <<>> \/ yr = <<>>

MissingResult ==
  [body |-> [success |-> FALSE, error |-> "Missing make, model or year"],
   status |-> 400]

CarzoneSuccess(price, url) ==
  [body |-> [success |-> TRUE, lowest_price |-> price, carzone_url |-> url,
             source |-> "carzone"],
   status |-> 200]

DoneDealSuccessNoUrl(price, url) ==
  [body |-> [success |-> TRUE, lowest_price |-> price, source |-> "donedeal"],
   status |-> 200]

DoneDealSuccess(price, url) ==
  [body |-> [success |-> TRUE, lowest_price |-> price, carzone_url |-> url,
             source |-> "donedeal"],
   status |-> 200]

FailureResultNoDoneDeal(url, cerr, derr) ==
  [body |-> [success |-> FALSE, carzone_url |-> url, error |-> cerr],
   status |-> 503]

FailureResult(url, cerr, derr) ==
  [body |-> [success |-> FALSE, carzone_url |-> url, error |-> cerr,
             donedeal_error |-> derr],
   status |-> 503]

NeverYields(p) == FALSE

\* `if lowest_price is not None:` after the Carzone attempt
PrimaryYieldedPrice(p) == p.some

OfferNoMargin(price) == price

\* offer = chosenListing.price - fixedMargin
Offer(price) == price - FixedMargin

(* ------------------------------ inputs --------------------------------- *)
MakeArgs == {NoArg, Arg(<<" ", "V">>)}
ModelArgs == {Arg(<<" ">>), Arg(<<"X", "-", "Y", " ">>)}
YearArgs == {NoArg, Arg(<<"a", "b", "c">>), Arg(<<"2", "0", "1", "5">>)}
MileageArgs == {NoArg, Arg(<<"x">>), Arg(<<"3", "0">>)}
Requests == [make : MakeArgs, model : ModelArgs, year : YearArgs,
             mileage : MileageArgs]

EmptyFields == [k \in KeySet |-> Absent]
CarFields ==
  {EmptyFields}
    \cup {[EmptyFields EXCEPT ![k] = Num(501)] : k \in KeySet}
    \cup {[EmptyFields EXCEPT !["price"] = Num(500)]}
    \cup {[EmptyFields EXCEPT !["price"] = v, !["askingPrice"] = Num(501)] :
            v \in {Num(0), Str, Num(9000)}}
Mileages == {10000, 30000}
NotADict == [dict |-> FALSE, f |-> EmptyFields, mileage |-> 0]
Cars == {[dict |-> TRUE, f |-> f, mileage |-> m] : f \in CarFields, m \in Mileages}
          \cup {NotADict}
DataKinds == {"list", "cars", "stock", "results"}
NoData == [kind |-> "other", items |-> <<>>]
ErrorStatuses == {403}
NoCzResp == [raise |-> FALSE, status |-> 0, json |-> FALSE, data |-> NoData]
CarzoneResponses ==
  {[raise |-> TRUE, status |-> 0, json |-> FALSE, data |-> NoData]}
    \cup {[raise |-> FALSE, status |-> c, json |-> FALSE, data |-> NoData] :
            c \in ErrorStatuses}
    \cup {[raise |-> FALSE, status |-> 200, json |-> FALSE, data |-> NoData]}
    \cup {[raise |-> FALSE, status |-> 200, json |-> TRUE, data |-> NoData]}
    \cup {[raise |-> FALSE, status |-> 200, json |-> TRUE,
           data |-> [kind |-> k, items |-> cs]] :
            k \in DataKinds, cs \in SeqsUpTo(Cars, MaxCars)}

NoTitle == [t |-> "absent", s |-> <<>>]
TitleShapes ==
  {[title |-> [t |-> "str", s |-> <<"X", " ", "y">>], displayName |-> <<>>,
    displayAttributes |-> <<>>],
   [title |-> [t |-> "str", s |-> <<"Z">>], displayName |-> <<>>,
    displayAttributes |-> <<>>],
   [title |-> [t |-> "num", s |-> <<>>], displayName |-> <<>>,
    displayAttributes |-> <<>>],
   [title |-> NoTitle, displayName |-> <<"x", "_", "Y">>,
    displayAttributes |-> <<>>],
   [title |-> [t |-> "str", s |-> <<>>], displayName |-> <<>>,
    displayAttributes |-> << <<"X">>, <<"Y">> >>]}
AdPrices == {Absent, Num(500), Num(501), Num(9000)}
Ads == {[price |-> p, title |-> t.title, displayName |-> t.displayName,
         displayAttributes |-> t.displayAttributes] :
          p \in AdPrices, t \in TitleShapes}
NoDdResp == [raise |-> FALSE, status |-> 0, nextData |-> FALSE, json |-> FALSE,
             ads |-> <<>>]
DoneDealResponses ==
  {[raise |-> TRUE, status |-> 0, nextData |-> FALSE, json |-> FALSE, ads |-> <<>>]}
    \cup {[raise |-> FALSE, status |-> c, nextData |-> FALSE, json |-> FALSE,
           ads |-> <<>>] : c \in ErrorStatuses}
    \cup {[raise |-> FALSE, status |-> 200, nextData |-> FALSE, json |-> FALSE,
           ads |-> <<>>]}
    \cup {[raise |-> FALSE, status |-> 200, nextData |-> TRUE, json |-> FALSE,
           ads |-> <<>>]}
    \cup {[raise |-> FALSE, status |-> 200, nextData |-> TRUE, json |-> TRUE,
           ads |-> as] : as \in SeqsUpTo(Ads, MaxAds)}

(* ------------------------------ actions -------------------------------- *)
NoResult == [body |-> [pending |-> TRUE], status |-> 0]
NoUrl == [site |-> "None"]

Init ==
  /\ pc = "idle"
  /\ args = [make |-> NoArg, model |-> NoArg, year |-> NoArg, mileage |-> NoArg]
  /\ make = <<>>
  /\ model = <<>>
  /\ year = <<>>
  /\ max_mileage = 0
  /\ czResp = NoCzResp
  /\ ddResp = NoDdResp
  /\ lowest_price = NoneVal
  /\ carzone_url = NoUrl
  /\ carzone_err = NoErr
  /\ dd_price = NoneVal
  /\ dd_err = NoErr
  /\ result = NoResult
  /\ offer = NoneVal
  /\ fetches = <<>>

\* valuation(), lines 162-175: read and validate the query parameters
Receive ==
  /\ pc = "idle"
  /\ \E a \in Requests :
       LET mk == Strip(ArgGet(a.make, <<>>))
           md == Strip(ArgGet(a.model, <<>>))
           yr == Strip(ArgGet(a.year, <<>>))
           ml == Strip(ArgGet(a.mileage, <<"0">>))
       IN  /\ args' = a
           /\ IF MissingParams(mk, md, yr)
                THEN /\ result' = MissingResult
                     /\ pc' = "done"
                     /\ UNCHANGED <<make, model, year, max_mileage>>
                ELSE /\ make' = mk
                     /\ model' = md
                     /\ year' = yr
                     /\ max_mileage' = MaxMileage(ml)
                     /\ pc' = "primary"
                     /\ UNCHANGED result
  /\ UNCHANGED <<czResp, ddResp, lowest_price, carzone_url, carzone_err,
                 dd_price, dd_err, offer, fetches>>

\* valuation(), lines 178-180: the call of get_lowest_carzone_price
TryCarzone ==
  /\ pc = "primary"
  /\ \E resp \in CarzoneResponses :
       LET r == get_lowest_carzone_price(make, model, year, max_mileage, resp)
       IN  /\ czResp' = resp
           /\ fetches' = Append(fetches, "carzone")
           /\ lowest_price' = r.price
           /\ carzone_url' = r.url
           /\ carzone_err' = r.err
  /\ pc' = "primary_returned"
  /\ UNCHANGED <<args, make, model, year, max_mileage, ddResp, dd_price, dd_err,
                 result, offer>>

\* valuation(), lines 182-190: respond with the Carzone price or fall through;
\* the response held by get_lowest_carzone_price is gone
AfterCarzone ==
  /\ pc = "primary_returned"
  /\ IF PrimaryYieldedPrice(lowest_price)
       THEN /\ result' = CarzoneSuccess(lowest_price.v, carzone_url)
            /\ pc' = "done"
       ELSE /\ pc' = "fallback"
            /\ UNCHANGED result
  /\ czResp' = NoCzResp
  /\ UNCHANGED <<args, make, model, year, max_mileage, ddResp, lowest_price,
                 carzone_url, carzone_err, dd_price, dd_err, offer, fetches>>

\* valuation(), line 193: the call of get_lowest_donedeal_price
TryDoneDeal ==
  /\ pc = "fallback"
  /\ \E resp \in DoneDealResponses :
       LET r == get_lowest_donedeal_price(make, model, year, resp)
       IN  /\ ddResp' = resp
           /\ fetches' = Append(fetches, "donedeal")
           /\ dd_price' = r.price
           /\ dd_err' = r.err
  /\ pc' = "fallback_returned"
  /\ UNCHANGED <<args, make, model, year, max_mileage, czResp, lowest_price,
                 carzone_url, carzone_err, result, offer>>

\* valuation(), lines 195-213: respond with the DoneDeal price or with the
\* errors of both sources
AfterDoneDeal ==
  /\ pc = "fallback_returned"
  /\ result' = IF dd_price.some
                 THEN DoneDealSuccess(dd_price.v, carzone_url)
                 ELSE FailureResult(carzone_url, carzone_err, dd_err)
  /\ pc' = "done"
  /\ ddResp' = NoDdResp
  /\ UNCHANGED <<args, make, model, year, max_mileage, czResp, lowest_price,
                 carzone_url, carzone_err, dd_price, dd_err, offer, fetches>>

\* the caller derives the offer from a successful result
ComputeOffer ==
  /\ pc = "done"
  /\ result.body.success
  /\ offer' = Some(Offer(result.body.lowest_price))
  /\ pc' = "shown"
  /\ UNCHANGED <<args, make, model, year, max_mileage, czResp, ddResp,
                 lowest_price, carzone_url, carzone_err, dd_price, dd_err,
                 result, fetches>>

\* the request is over; the server waits for the next one
NextRequest ==
  /\ pc \in {"done", "shown"}
  /\ pc' = "idle"
  /\ args' = [make |-> NoArg, model |-> NoArg, year |-> NoArg, mileage |-> NoArg]
  /\ make' = <<>>
  /\ model' = <<>>
  /\ year' = <<>>
  /\ max_mileage' = 0
  /\ czResp' = NoCzResp
  /\ ddResp' = NoDdResp
  /\ lowest_price' = NoneVal
  /\ carzone_url' = NoUrl
  /\ carzone_err' = NoErr
  /\ dd_price' = NoneVal
  /\ dd_err' = NoErr
  /\ result' = NoResult
  /\ offer' = NoneVal
  /\ fetches' = <<>>

Next ==
  Receive \/ TryCarzone \/ AfterCarzone \/ TryDoneDeal \/ AfterDoneDeal
    \/ ComputeOffer \/ NextRequest

Spec == Init /\ [][Next]_vars

(* ---------------------------- properties ------------------------------- *)
Finished == pc \in {"done", "shown"}
Validated == ~MissingParams(Strip(ArgGet(args.make, <<>>)),
                            Strip(ArgGet(args.model, <<>>)),
                            Strip(ArgGet(args.year, <<>>)))

\* the Carzone response was received and decoded
CzParsed ==
  /\ ~czResp.raise /\ czResp.status = 200 /\ czResp.json
  /\ \A i \in 1..Len(czResp.data.items) : czResp.data.items[i].dict

\* prices of the Carzone listings that have one
CzCandidates ==
  {CarPrice(czResp.data.items[i]).v :
     i \in {j \in 1..Len(czResp.data.items) : CarPrice(czResp.data.items[j]).some}}

\* the DoneDeal response was received and decoded, and no priced ad has a
\* title that is not text
DdParsed ==
  /\ ~ddResp.raise /\ ddResp.status = 200 /\ ddResp.nextData /\ ddResp.json
  /\ \A i \in 1..Len(ddResp.ads) :
       ~(FirstPassPrice(ddResp.ads[i].price) /\ TitleRaises(ddResp.ads[i]))

\* prices of the DoneDeal ads that pass the title-matched pass
DdMatched ==
  {ddResp.ads[i].price.v :
     i \in {j \in 1..Len(ddResp.ads) :
              /\ FirstPassPrice(ddResp.ads[j].price)
              /\ ~TitleRaises(ddResp.ads[j])
              /\ TitleMatches(ddResp.ads[j], model)}}

\* prices of the DoneDeal ads that pass the relaxed pass
DdRelaxed ==
  {ddResp.ads[i].price.v :
     i \in {j \in 1..Len(ddResp.ads) : SecondPassPrice(ddResp.ads[j].price)}}

DdCandidates == IF DdMatched # {} THEN DdMatched ELSE DdRelaxed

IsLeast(x, S) == x \in S /\ \A y \in S : x <= y

CarzoneErrors ==
  {"Carzone error", "No prices found in Carzone response"}
    \cup {CarzoneStatusErr(c) : c \in ErrorStatuses}
DoneDealErrors ==
  {"DoneDeal error", "DoneDeal: __NEXT_DATA__ not found in page",
   "DoneDeal: no ads in response", "DoneDeal: no valid prices found"}
    \cup {DoneDealStatusErr(c) : c \in ErrorStatuses}

\* C1: in a validated request Carzone is fetched exactly once; DoneDeal is
\* fetched exactly once, after the Carzone attempt has returned, when that
\* attempt yielded no price (error status, exception, no usable price), and
\* is not fetched when it yielded one.
ThmC1_FetchSequence ==
  /\ pc \in {"idle", "primary"} => fetches = <<>>
  /\ pc = "primary_returned" =>
       /\ fetches = <<"carzone">>
       /\ (~CzParsed \/ CzCandidates = {}) => ~lowest_price.some
  /\ pc = "fallback" => fetches = <<"carzone">> /\ ~lowest_price.some
  /\ pc = "fallback_returned" =>
       fetches = <<"carzone", "donedeal">> /\ ~lowest_price.some
  /\ (Finished /\ Validated) =>
       IF lowest_price.some THEN fetches = <<"carzone">>
       ELSE fetches = <<"carzone", "donedeal">>

WitC1_FallbackAfterPrimary ==
  /\ pc = "done" /\ Validated
  /\ ~lowest_price.some
  /\ fetches = <<"carzone", "donedeal">>

\* C2 (as claimed): a request whose year is not an integer ends at once in a
\* validation error and performs no fetch.
ClaimC2_NonIntegerYearRejected ==
  (pc # "idle" /\ ~IsIntString(Strip(ArgGet(args.year, <<>>)))) =>
     /\ fetches = <<>>
     /\ Finished
     /\ result.status = 400

ClaimC5_PriceAboveFloor ==
  /\ lowest_price.some => lowest_price.v > SanityFloor
  /\ dd_price.some => dd_price.v > SanityFloor

\* C6 (as claimed): every listing whose price is returned has a mileage that
\* does not exceed the requested maximum mileage.
ClaimC6_MileageWithinCeiling ==
  (pc = "primary_returned" /\ lowest_price.some) =>
    \A i \in 1..Len(czResp.data.items) :
      CarPrice(czResp.data.items[i]) = lowest_price =>
        czResp.data.items[i].mileage <= max_mileage

\* C7: when neither source yields a price the result has success = false,
\* one error message per source and the Carzone search URL; a failed result
\* after fetching is produced only in that case.
ThmC7_FailureCarriesBothErrors ==
  Finished =>
    /\ (fetches # <<>> /\ ~lowest_price.some /\ ~dd_price.some) =>
         /\ result.body.success = FALSE
         /\ {"carzone_url", "error", "donedeal_error"} \subseteq DOMAIN result.body
         /\ result.body.error \in CarzoneErrors
         /\ result.body.donedeal_error \in DoneDealErrors
         /\ result.body.carzone_url = carzone_url
         /\ carzone_url # NoUrl
    /\ (fetches # <<>> /\ result.body.success = FALSE) =>
         /\ fetches = <<"carzone", "donedeal">>
         /\ ~lowest_price.some
         /\ ~dd_price.some

WitC7_BothSourcesFailed ==
  /\ pc = "done" /\ result.status = 503
  /\ result.body.error = "No prices found in Carzone response"
  /\ result.body.donedeal_error = "DoneDeal: no valid prices found"

\* C8: the price a source returns is one of the candidate prices that passed
\* the source's filter and is less than or equal to every other candidate;
\* when no candidate passes, the source returns None with an error message.
ThmC8_ReturnsLeastCandidate ==
  /\ pc = "primary_returned" =>
       IF CzParsed /\ CzCandidates # {}
         THEN lowest_price.some /\ IsLeast(lowest_price.v, CzCandidates)
                /\ carzone_err = NoErr
         ELSE ~lowest_price.some /\ carzone_err \in CarzoneErrors
  /\ pc = "fallback_returned" =>
       IF DdParsed /\ DdCandidates # {}
         THEN dd_price.some /\ IsLeast(dd_price.v, DdCandidates)
                /\ dd_err = NoErr
         ELSE ~dd_price.some /\ dd_err \in DoneDealErrors

WitC8_LeastIsNotFirst ==
  /\ pc = "primary_returned" /\ lowest_price.some
  /\ Cardinality(CzCandidates) >= 2
  /\ CarPrice(czResp.data.items[1]).some
  /\ CarPrice(czResp.data.items[1]).v > lowest_price.v

\* C9: in the DoneDeal parser, when some priced ad has a title containing
\* the normalized model name, the returned price is the minimum over those
\* ads only; the relaxed pass over all priced ads is used only when the
\* title-matched pass produced nothing, and the two are never mixed.
ThmC9_PassesNotMixed ==
  pc = "fallback_returned" =>
    /\ dd_price.some => DdParsed
    /\ (DdParsed /\ DdMatched # {}) =>
         dd_price.some /\ IsLeast(dd_price.v, DdMatched)
    /\ (DdParsed /\ DdMatched = {} /\ DdRelaxed # {}) =>
         dd_price.some /\ IsLeast(dd_price.v, DdRelaxed)
    /\ (dd_price.some /\ dd_price.v \notin DdMatched) => DdMatched = {}

WitC9_CheaperUnmatchedAdIgnored ==
  /\ pc = "fallback_returned" /\ dd_price.some
  /\ DdMatched # {}
  /\ \E p \in DdRelaxed : p < dd_price.v /\ p \notin DdMatched

\* index of the first price key present in the record, 0 when none is
FirstPresent(car) ==
  IF \E i \in 1..Len(PriceKeys) : car.f[PriceKeys[i]].t # "absent"
    THEN CHOOSE i \in 1..Len(PriceKeys) :
           /\ car.f[PriceKeys[i]].t # "absent"
           /\ \A j \in 1..(i - 1) : car.f[PriceKeys[j]].t = "absent"
    ELSE 0

\* index of the first price key holding a number above the floor, 0 when none
FirstUsable(car) ==
  IF \E i \in 1..Len(PriceKeys) : Usable(car.f[PriceKeys[i]])
    THEN CHOOSE i \in 1..Len(PriceKeys) :
           /\ Usable(car.f[PriceKeys[i]])
           /\ \A j \in 1..(i - 1) : ~Usable(car.f[PriceKeys[j]])
    ELSE 0

\* C10 (as claimed): the price of each Carzone record is taken from the first
\* field present in the record, in the order price, Price, askingPrice,
\* asking_price, salePrice.
ClaimC10_FirstPresentField ==
  (pc = "primary_returned" /\ CzParsed) =>
    \A i \in 1..Len(czResp.data.items) :
      LET car == czResp.data.items[i]
      IN  CarPrice(car).some =>
            car.f[PriceKeys[FirstPresent(car)]] = Num(CarPrice(car).v)

\* C10 (amended): the price of each Carzone record is taken from the first
\* field, in the order price, Price, askingPrice, asking_price, salePrice,
\* whose value is a number greater than 500; a record without such a field
\* contributes no price.
ThmC10_FirstUsableField ==
  (pc = "primary_returned" /\ CzParsed) =>
    \A i \in 1..Len(czResp.data.items) :
      LET car == czResp.data.items[i]
      IN  IF FirstUsable(car) = 0 THEN ~CarPrice(car).some
          ELSE CarPrice(car) = Some(car.f[PriceKeys[FirstUsable(car)]].v)

WitC10_HigherFieldUnusable ==
  /\ pc = "primary_returned" /\ CzParsed /\ lowest_price.some
  /\ \E i \in 1..Len(czResp.data.items) :
       LET car == czResp.data.items[i]
       IN  /\ FirstUsable(car) > FirstPresent(car)
           /\ FirstPresent(car) > 0
           /\ lowest_price.v = car.f[PriceKeys[FirstUsable(car)]].v

====
